---- MODULE Spec2Model ----
(***************************************************************************)
(* Model of gantt.py: class Package (one work package built from a JSON    *)
(* record) and class Gantt (load a JSON document, derive the plotting      *)
(* data, render it with pyplot, show or save it).                          *)
(*                                                                         *)
(* Strings that the program inspects character by character (the date      *)
(* strings) are sequences of one-character strings.  Python's None is the  *)
(* value PyNone; a datetime is a record [year, month, day].                *)
(***************************************************************************)
EXTENDS Integers, Sequences, FiniteSets, TLC

VARIABLES
    doc,        \* the content of dataFile (the input of the run)
    pc,         \* where the run is: "start", "loaded", "ready", "failed"
    err,        \* the exception that ended the run, NoErr if none
    trace,      \* the phases executed so far, in order, each with its outcome
    title,      \* self.title
    packages,   \* self.packages
    labels,     \* self.labels
    milestones, \* self.milestones: an insertion-ordered dict, as <<key, value>> pairs
    xticks,     \* self.xticks
    nPackages,  \* self.nPackages
    startDate,  \* self.start while it holds datetimes (lines 137-145)
    endDate,    \* self.end while it holds datetimes (lines 138-145)
    durations,  \* self.durations
    start,      \* self.start once rebound to ordinals (line 146)
    end,        \* self.end once rebound to ordinals (line 147)
    yPos,       \* self.yPos
    plt,        \* pyplot's state: the number of figures and the current figure
    output      \* what show() or save() last put out

vars == <<doc, pc, err, trace, title, packages, labels, milestones, xticks,
          nPackages, startDate, endDate, durations, start, end, yPos, plt, output>>

(***************************************************************************)
(* Bounds                                                                  *)
(***************************************************************************)
\* the largest number of packages in a document
MaxPkgs == 2
\* the largest number of render/show/save calls the caller makes on one instance
MaxCalls == 2

(***************************************************************************)
(* Python values                                                           *)
(***************************************************************************)
PyNone == "<None>"
Absent == "<absent>"   \* a key the JSON object does not have

\* bool(x) of a str-or-None value
Truthy_NotNone(v) == v # PyNone
Truthy(v) == v # PyNone /\ v # ""

\* exceptions: the class, the message (or the missing key) and the offending string
NoErr == [exc |-> "", msg |-> "", arg |-> <<>>]
Exc(c, m, a) == [exc |-> c, msg |-> m, arg |-> a]

(***************************************************************************)
(* datetime                                                                *)
(***************************************************************************)
Digits == {"0", "1", "2", "3", "4", "5", "6", "7", "8", "9"}

DigitVal(c) ==
    CASE c = "0" -> 0 [] c = "1" -> 1 [] c = "2" -> 2 [] c = "3" -> 3
      [] c = "4" -> 4 [] c = "5" -> 5 [] c = "6" -> 6 [] c = "7" -> 7
      [] c = "8" -> 8 [] c = "9" -> 9

NoneDate == [year |-> 0, month |-> 0, day |-> 0]

\* what strptime returns, or that it raised ValueError
NoMatch == [ok |-> FALSE, value |-> NoneDate]

\* the length of the month that the regular expression of "%m-%Y",
\* (1[0-2]|0[1-9]|[1-9])-(\d\d\d\d), matches at the start of s; 0 if it does not match
MonthLen(s) ==
    LET n == Len(s)
        two == /\ n >= 2
               /\ \/ s[1] = "1" /\ s[2] \in {"0", "1", "2"}
                  \/ s[1] = "0" /\ s[2] \in Digits \ {"0"}
        one == n >= 1 /\ s[1] \in Digits \ {"0"}
        Rest(p) == /\ n >= p + 5
                   /\ s[p + 1] = "-"
                   /\ \A i \in (p + 2)..(p + 5) : s[i] \in Digits
    IN  IF two /\ Rest(2) THEN 2 ELSE IF one /\ Rest(1) THEN 1 ELSE 0

\* int() of the digits of s from position p to position q
RECURSIVE IntOf(_, _, _)
IntOf(s, p, q) == IF q < p THEN 0 ELSE 10 * IntOf(s, p, q - 1) + DigitVal(s[q])

\* datetime(year, month, 1), which accepts the years from MINYEAR = 1 on
Datetime(year, month) ==
    IF year < 1 THEN NoMatch
    ELSE [ok |-> TRUE, value |-> [year |-> year, month |-> month, day |-> 1]]

\* the match of length mlen + 5 must leave no character of s over
StrptimeAt(s, mlen) ==
    IF mlen = 0 THEN NoMatch
    ELSE IF Len(s) # mlen + 5 THEN NoMatch
    ELSE Datetime(IntOf(s, mlen + 2, mlen + 5), IntOf(s, 1, mlen))

\* datetime.strptime(s, "%m-%Y"); the day defaults to 1
Strptime(s) == StrptimeAt(s, MonthLen(s))

\* datetime.__gt__
DateGT_YearOnly(a, b) == a.year > b.year
DateGT(a, b) ==
    \/ a.year > b.year
    \/ a.year = b.year /\ a.month > b.month
    \/ a.year = b.year /\ a.month = b.month /\ a.day > b.day

IsLeap(y) == y % 4 = 0 /\ (y % 100 # 0 \/ y % 400 = 0)

DaysInMonth(y, m) ==
    IF m = 2 THEN (IF IsLeap(y) THEN 29 ELSE 28)
    ELSE IF m \in {4, 6, 9, 11} THEN 30 ELSE 31

DaysBeforeYear(y) ==
    (y - 1) * 365 + ((y - 1) \div 4) - ((y - 1) \div 100) + ((y - 1) \div 400)

RECURSIVE DaysBeforeMonth(_, _)
DaysBeforeMonth(y, m) ==
    IF m <= 1 THEN 0 ELSE DaysBeforeMonth(y, m - 1) + DaysInMonth(y, m - 1)

\* datetime.toordinal()
ToOrdinal_NoLeap(d) == (d.year - 1) * 365 + DaysBeforeMonth(1, d.month) + d.day
ToOrdinal(d) == DaysBeforeYear(d.year) + DaysBeforeMonth(d.year, d.month) + d.day

\* (e - s).days
TimedeltaDays(e, s) == ToOrdinal(e) - ToOrdinal(s)

(***************************************************************************)
(* class Package                                                           *)
(***************************************************************************)
DEFCOLOR == "#32AEE0"

NoPackage == [label |-> "", start |-> NoneDate, end |-> NoneDate,
              milestones |-> <<>>, color |-> "", legend |-> PyNone]

\* Package._parse_date
DateFormatError(date_str) == Exc("ValueError", "Date format for {} should be MM-YYYY", date_str)

ParsedOr(r, e) ==
    IF r.ok THEN [err |-> NoErr, value |-> r.value] ELSE [err |-> e, value |-> NoneDate]

_parse_date(date_str) == ParsedOr(Strptime(date_str), DateFormatError(date_str))

\* a list comprehension over parsed dates: h is the first result, t the rest's
ConsParsed(h, t) ==
    IF h.err # NoErr THEN [err |-> h.err, value |-> <<>>]
    ELSE IF t.err # NoErr THEN [err |-> t.err, value |-> <<>>]
    ELSE [err |-> NoErr, value |-> <<h.value>> \o t.value]

\* [self._parse_date(m) for m in ms]: the dates, or the first error
RECURSIVE ParseAll(_)
ParseAll(ms) ==
    IF ms = <<>> THEN [err |-> NoErr, value |-> <<>>]
    ELSE ConsParsed(_parse_date(Head(ms)), ParseAll(Tail(ms)))

\* the rest of Package.__init__ once start (s), end (e) and milestones (m) are parsed
PackageOf(pkg, s, e, m) ==
    IF s.err # NoErr THEN [err |-> s.err, obj |-> NoPackage]
    ELSE IF e.err # NoErr THEN [err |-> e.err, obj |-> NoPackage]
    ELSE IF DateGT(s.value, e.value)
        THEN [err |-> Exc("ValueError", "Cannot end before started", <<>>),
              obj |-> NoPackage]
    ELSE IF m.err # NoErr THEN [err |-> m.err, obj |-> NoPackage]
    ELSE [err |-> NoErr,
          obj |-> [label |-> pkg.label, start |-> s.value, end |-> e.value,
                   milestones |-> m.value,
                   color |-> IF pkg.color = Absent THEN DEFCOLOR ELSE pkg.color,
                   legend |-> IF pkg.legend = Absent THEN PyNone ELSE pkg.legend]]

\* Package.__init__: the object, or the exception raised.  pkg is a JSON object
\* with the keys label, start and end; hasMilestones tells whether it has the key
\* milestones, and color and legend are Absent when it lacks them.
Package(pkg) ==
    PackageOf(pkg, _parse_date(pkg.start), _parse_date(pkg.end),
              IF pkg.hasMilestones THEN ParseAll(pkg.milestones)
              ELSE [err |-> NoErr, value |-> <<>>])

(***************************************************************************)
(* list and dict                                                           *)
(***************************************************************************)
\* list.index(x), 1-based: the first position holding x
Index_Last(l, x) == CHOOSE i \in 1..Len(l) : l[i] = x /\ \A j \in (i + 1)..Len(l) : l[j] # x
Index(l, x) == CHOOSE i \in 1..Len(l) : l[i] = x /\ \A j \in 1..(i - 1) : l[j] # x

\* d[k] = v on a dict kept as <<key, value>> pairs in insertion order
DictSet(d, k, v) ==
    IF \E i \in 1..Len(d) : d[i][1] = k
    THEN [i \in 1..Len(d) |-> IF d[i][1] = k THEN <<k, v>> ELSE d[i]]
    ELSE Append(d, <<k, v>>)

DictKeys(d) == {d[i][1] : i \in 1..Len(d)}

RECURSIVE SeqMin(_)
SeqMin(s) == IF Len(s) = 1 THEN s[1]
             ELSE LET m == SeqMin(Tail(s)) IN IF s[1] <= m THEN s[1] ELSE m

RECURSIVE SeqMax(_)
SeqMax(s) == IF Len(s) = 1 THEN s[1]
             ELSE LET m == SeqMax(Tail(s)) IN IF s[1] >= m THEN s[1] ELSE m

\* np.arange(first, stop, -1), stop excluded
RECURSIVE Arange_Ascending(_, _)
Arange_Ascending(first, stop) ==
    IF first <= stop THEN <<>> ELSE Arange_Ascending(first - 1, stop) \o <<first>>
RECURSIVE Arange(_, _)
Arange(first, stop) ==
    IF first <= stop THEN <<>> ELSE <<first>> \o Arange(first - 1, stop)

(***************************************************************************)
(* Gantt._loadData                                                         *)
(***************************************************************************)
\* data[key] raises KeyError
MissingKey_Get(data, key) == FALSE
MissingKey(data, key) ==
    CASE key = "title" -> ~data.hasTitle
      [] key = "packages" -> ~data.hasPackages
      [] key = "xticks" -> ~data.hasXticks

\* for pkg in data["packages"]: self.packages.append(Package(pkg))
\* the packages appended, and the exception that stopped the loop
RECURSIVE AppendPackages(_, _)
RECURSIVE AppendNext(_, _, _)
AppendNext(acc, p, rest) ==
    IF p.err # NoErr THEN [err |-> p.err, packages |-> acc]
    ELSE AppendPackages(Append(acc, p.obj), rest)
AppendPackages(acc, recs) ==
    IF recs = <<>> THEN [err |-> NoErr, packages |-> acc]
    ELSE AppendNext(acc, Package(Head(recs)), Tail(recs))

\* for pkg in self.packages: self.milestones[pkg.label] = pkg.milestones
\* (pkg.milestones always exists, so the AttributeError handler never runs)
RECURSIVE CollectMilestones(_, _)
CollectMilestones(acc, pkgs) ==
    IF pkgs = <<>> THEN acc
    ELSE CollectMilestones(DictSet(acc, Head(pkgs).label, Head(pkgs).milestones),
                           Tail(pkgs))

NoData == [err |-> NoErr, title |-> "", packages |-> <<>>, labels |-> <<>>,
           milestones |-> <<>>, xticks |-> <<>>]

\* _loadData, built being the outcome of its loop over data["packages"]
LoadOf(d, built) ==
    IF d.file = "missing"
        THEN [NoData EXCEPT !.err = Exc("FileNotFoundError", "No such file or directory", <<>>)]
    ELSE IF d.file = "badjson"
        THEN [NoData EXCEPT !.err = Exc("JSONDecodeError", "Expecting value", <<>>)]
    ELSE IF MissingKey(d, "title")
        THEN [NoData EXCEPT !.err = Exc("KeyError", "title", <<>>)]
    ELSE IF MissingKey(d, "packages")
        THEN [NoData EXCEPT !.err = Exc("KeyError", "packages", <<>>), !.title = d.title]
    ELSE IF built.err # NoErr
        THEN [NoData EXCEPT !.err = built.err, !.title = d.title,
                            !.packages = built.packages]
    ELSE [err |-> NoErr,
          title |-> d.title,
          packages |-> built.packages,
          labels |-> [i \in 1..Len(d.packages) |-> d.packages[i].label],
          milestones |-> CollectMilestones(<<>>, built.packages),
          xticks |-> IF MissingKey(d, "xticks") THEN <<>> ELSE d.xticks]

\* what _loadData leaves in self, and the exception it raised
_loadData(d) == LoadOf(d, AppendPackages(<<>>, d.packages))

(***************************************************************************)
(* Gantt._procData                                                         *)
(***************************************************************************)
\* for pkg in self.packages: arr[self.labels.index(pkg.label)] = pkg.<field>
RECURSIVE FillStart(_, _, _)
FillStart(arr, pkgs, lbls) ==
    IF pkgs = <<>> THEN arr
    ELSE FillStart([arr EXCEPT ![Index(lbls, Head(pkgs).label)] = Head(pkgs).start],
                   Tail(pkgs), lbls)

RECURSIVE FillEnd(_, _, _)
FillEnd(arr, pkgs, lbls) ==
    IF pkgs = <<>> THEN arr
    ELSE FillEnd([arr EXCEPT ![Index(lbls, Head(pkgs).label)] = Head(pkgs).end],
                 Tail(pkgs), lbls)

\* lines 145-149, s and e being self.start and self.end as the loop left them
ProcOf(n, s, e) ==
    IF \E i \in 1..n : s[i] = NoneDate \/ e[i] = NoneDate
    THEN [err |-> Exc("TypeError", "unsupported operand type(s) for -", <<>>),
          nPackages |-> n, startDate |-> s, endDate |-> e,
          durations |-> <<>>, start |-> <<>>, end |-> <<>>, yPos |-> <<>>]
    ELSE [err |-> NoErr,
          nPackages |-> n, startDate |-> s, endDate |-> e,
          durations |-> [i \in 1..n |-> TimedeltaDays(e[i], s[i])],
          start |-> [i \in 1..n |-> ToOrdinal(s[i])],
          end |-> [i \in 1..n |-> ToOrdinal(e[i])],
          yPos |-> Arange(n, 0)]

\* what _procData leaves in self, and the exception it raised
_procData(pkgs, lbls) ==
    ProcOf(Len(lbls),
           FillStart([i \in 1..Len(lbls) |-> NoneDate], pkgs, lbls),
           FillEnd([i \in 1..Len(lbls) |-> NoneDate], pkgs, lbls))

(***************************************************************************)
(* Gantt.render, with format, add_milestones and add_legend                *)
(***************************************************************************)
\* a figure with nothing drawn on it
BlankFig == [bars |-> <<>>, xlim |-> <<>>, yticks |-> <<>>, title |-> "",
             xticks |-> <<>>, scatter |-> <<>>, legend |-> FALSE]

\* [datetime.strptime(tick, "%m-%Y").toordinal() for tick in ticks]
RECURSIVE TickOrdinals(_)
TickOrdinals(ticks) ==
    IF ticks = <<>> THEN [err |-> NoErr, value |-> <<>>]
    ELSE ConsParsed(ParsedOr(Strptime(Head(ticks)),
                             Exc("ValueError", "time data {} does not match format",
                                 Head(ticks))),
                    TickOrdinals(Tail(ticks)))

\* line 177: plt.xticks(ordinals, self.xticks), t being the parsed ticks
SetXticks(fig, t) ==
    IF t.err # NoErr THEN [err |-> t.err, fig |-> fig]
    ELSE [err |-> NoErr,
          fig |-> [fig EXCEPT !.xticks =
                       [i \in 1..Len(xticks) |-> <<ToOrdinal(t.value[i]), xticks[i]>>]]]

\* Gantt.format: the figure as the call leaves it, and the exception it raised
format(fig) ==
    IF start = <<>>
    THEN [err |-> Exc("ValueError", "min() arg is an empty sequence", <<>>), fig |-> fig]
    ELSE IF xticks = <<>>
    THEN [err |-> NoErr,
          fig |-> [fig EXCEPT !.xlim = <<SeqMin(start), SeqMax(end)>>,
                              !.yticks = [i \in 1..Len(yPos) |-> <<yPos[i], labels[i]>>],
                              !.title = title]]
    ELSE SetXticks([fig EXCEPT !.xlim = <<SeqMin(start), SeqMax(end)>>,
                               !.yticks = [i \in 1..Len(yPos) |-> <<yPos[i], labels[i]>>],
                               !.title = title],
                   TickOrdinals(xticks))

\* the markers of the dict entries from position k on, in key order:
\* (value.toordinal(), self.yPos[self.labels.index(key)])
RECURSIVE Markers(_)
Markers(k) ==
    IF k > Len(milestones) THEN <<>>
    ELSE LET key == milestones[k][1]
             values == milestones[k][2]
         IN  [i \in 1..Len(values) |-> <<ToOrdinal(values[i]), yPos[Index(labels, key)]>>]
             \o Markers(k + 1)

\* Gantt.add_milestones: one scatter call unless the dict is empty
add_milestones(fig) ==
    IF milestones = <<>> THEN fig
    ELSE [fig EXCEPT !.scatter = Append(@, Markers(1))]

\* the bars after set_label for the packages from position k on
RECURSIVE SetLabels(_, _)
SetLabels(bars, k) ==
    IF k > Len(packages) THEN bars
    ELSE IF Truthy(packages[k].legend)
         THEN SetLabels([bars EXCEPT ![Index(labels, packages[k].label)].label =
                                          packages[k].legend], k + 1)
         ELSE SetLabels(bars, k + 1)

\* Gantt.add_legend
add_legend(fig) ==
    LET cnt == Cardinality({k \in 1..Len(packages) : Truthy(packages[k].legend)})
    IN  [fig EXCEPT !.bars = SetLabels(@, 1), !.legend = cnt > 0]

\* lines 236-237 run only if format returned
AfterFormat(f) ==
    IF f.err # NoErr THEN f
    ELSE [err |-> NoErr, fig |-> add_legend(add_milestones(f.fig))]

\* Gantt.render: the new current figure, and the exception raised
render ==
    AfterFormat(format([BlankFig EXCEPT !.bars =
        [i \in 1..Len(yPos) |->
            [y |-> yPos[i], width |-> durations[i], left |-> start[i],
             color |-> packages[i].color, label |-> PyNone]]]))

(***************************************************************************)
(* The run: Gantt(dataFile), then the caller's render(), show(), save()    *)
(***************************************************************************)
\* an exception raised in __init__ propagates: _procData runs only if _loadData returned
AfterLoad_Swallowed(e) == "loaded"
AfterLoad(e) == IF e = NoErr THEN "loaded" ELSE "failed"

\* an exception raised in _procData leaves no instance to call methods on
AfterProc(e) == IF e = NoErr THEN "ready" ELSE "failed"

Phase(op, e) == [op |-> op, ok |-> e = NoErr]

\* the number of render/show/save calls made so far
Calls == IF Len(trace) > 2 THEN Len(trace) - 2 ELSE 0

SaveFiles == {"img/GANTT.png", "out.png"}

NoOutput == [kind |-> "none", path |-> "", fig |-> BlankFig]

\* Gantt.__init__, first half: self._loadData()
Load ==
    /\ pc = "start"
    /\ \E r \in {_loadData(doc)} :
           /\ title' = r.title
           /\ packages' = r.packages
           /\ labels' = r.labels
           /\ milestones' = r.milestones
           /\ xticks' = r.xticks
           /\ err' = r.err
           /\ pc' = AfterLoad(r.err)
           /\ trace' = Append(trace, Phase("load", r.err))
    /\ UNCHANGED <<doc, nPackages, startDate, endDate, durations, start, end, yPos,
                   plt, output>>

\* Gantt.__init__, second half: self._procData()
Process ==
    /\ pc = "loaded"
    /\ \E r \in {_procData(packages, labels)} :
           /\ nPackages' = r.nPackages
           /\ startDate' = r.startDate
           /\ endDate' = r.endDate
           /\ durations' = r.durations
           /\ start' = r.start
           /\ end' = r.end
           /\ yPos' = r.yPos
           /\ err' = r.err
           /\ pc' = AfterProc(r.err)
           /\ trace' = Append(trace, Phase("process", r.err))
    /\ UNCHANGED <<doc, title, packages, labels, milestones, xticks, plt, output>>

\* g.render(): plt.subplots() opens a new figure, which becomes the current one
Render ==
    /\ pc = "ready"
    /\ Calls < MaxCalls
    /\ \E r \in {render} :
           /\ plt' = [figs |-> plt.figs + 1, cur |-> r.fig]
           /\ err' = r.err
           /\ pc' = IF r.err = NoErr THEN "ready" ELSE "failed"
           /\ trace' = Append(trace, Phase("render", r.err))
    /\ UNCHANGED <<doc, title, packages, labels, milestones, xticks, nPackages,
                   startDate, endDate, durations, start, end, yPos, output>>

\* g.show(): plt.show() displays the figures there are
Show ==
    /\ pc = "ready"
    /\ Calls < MaxCalls
    /\ output' = [kind |-> "show", path |-> "", fig |-> plt.cur]
    /\ trace' = Append(trace, Phase("show", NoErr))
    /\ UNCHANGED <<doc, pc, err, title, packages, labels, milestones, xticks, nPackages,
                   startDate, endDate, durations, start, end, yPos, plt>>

\* g.save(saveFile): plt.savefig writes the current figure, opening a blank one
\* if there is none
Save ==
    /\ pc = "ready"
    /\ Calls < MaxCalls
    /\ \E saveFile \in SaveFiles :
           output' = [kind |-> "save", path |-> saveFile, fig |-> plt.cur]
    /\ plt' = IF plt.figs = 0 THEN [figs |-> 1, cur |-> BlankFig] ELSE plt
    /\ trace' = Append(trace, Phase("save", NoErr))
    /\ UNCHANGED <<doc, pc, err, title, packages, labels, milestones, xticks, nPackages,
                   startDate, endDate, durations, start, end, yPos>>

Next == Load \/ Process \/ Render \/ Show \/ Save

(***************************************************************************)
(* Input documents                                                         *)
(***************************************************************************)
D_01_2021 == <<"0", "1", "-", "2", "0", "2", "1">>
D_02_2021 == <<"0", "2", "-", "2", "0", "2", "1">>
D_03_2021 == <<"0", "3", "-", "2", "0", "2", "1">>
D_02_2020 == <<"0", "2", "-", "2", "0", "2", "0">>
D_1_2021 == <<"1", "-", "2", "0", "2", "1">>
D_2020_01 == <<"2", "0", "2", "0", "-", "0", "1">>
D_13_2021 == <<"1", "3", "-", "2", "0", "2", "1">>

LabelNames == <<"A", "B", "C", "D">>
Labels == {LabelNames[i] : i \in 1..MaxPkgs}

\* the record of the spec's end-to-end scenario
BasePkg == [label |-> "A", start |-> D_01_2021, end |-> D_03_2021,
            hasMilestones |-> FALSE, milestones |-> <<>>,
            color |-> Absent, legend |-> Absent]

\* the base record changed in one respect at a time (dates, milestones, legend;
\* the record with a legend string also names its color)
PkgVariants ==
    { BasePkg,
      [BasePkg EXCEPT !.start = D_02_2020, !.end = D_01_2021],
      [BasePkg EXCEPT !.start = D_03_2021, !.end = D_01_2021],
      [BasePkg EXCEPT !.start = D_2020_01],
      [BasePkg EXCEPT !.hasMilestones = TRUE],
      [BasePkg EXCEPT !.hasMilestones = TRUE, !.milestones = <<D_02_2021>>],
      [BasePkg EXCEPT !.hasMilestones = TRUE, !.milestones = <<D_2020_01>>],
      [BasePkg EXCEPT !.legend = PyNone],
      [BasePkg EXCEPT !.legend = ""],
      [BasePkg EXCEPT !.legend = "Phase 1", !.color = "#FF0000"] }

PkgRecords == {[v EXCEPT !.label = l] : v \in PkgVariants, l \in Labels}

PkgLists == UNION {[1..n -> PkgRecords] : n \in 0..MaxPkgs}

XtickLists == {<<D_01_2021, D_1_2021, D_03_2021>>, <<D_01_2021, D_2020_01>>}

BaseDoc == [file |-> "ok", hasTitle |-> TRUE, title |-> "T",
            hasPackages |-> TRUE, packages |-> <<BasePkg>>,
            hasXticks |-> FALSE, xticks |-> <<>>]

\* documents of up to MaxPkgs packages, with or without each top-level key
Docs ==
    {[BaseDoc EXCEPT !.file = f] : f \in {"missing", "badjson"}}
    \cup {[BaseDoc EXCEPT !.hasTitle = ht, !.packages = ps, !.hasXticks = xs # <<>>,
                          !.xticks = xs] :
              ht \in BOOLEAN, ps \in PkgLists, xs \in XtickLists \cup {<<>>}}
    \cup {[BaseDoc EXCEPT !.hasTitle = ht, !.hasPackages = FALSE, !.packages = <<>>,
                          !.hasXticks = xs # <<>>, !.xticks = xs] :
              ht \in BOOLEAN, xs \in XtickLists \cup {<<>>}}

\* documents of one package, over every combination of its fields
DateStrings == {D_01_2021, D_1_2021, D_02_2020, D_03_2021, D_2020_01, D_13_2021}

PackageDocs ==
    {[BaseDoc EXCEPT !.packages =
          <<[BasePkg EXCEPT !.start = s, !.end = e, !.hasMilestones = m[1],
                            !.milestones = m[2], !.legend = l]>>] :
        s \in DateStrings, e \in DateStrings,
        m \in {<<FALSE, <<>>>>, <<TRUE, <<>>>>} \cup {<<TRUE, <<d>>>> : d \in DateStrings},
        l \in {Absent, PyNone, "", "Phase 1"}}

InitWith(d) ==
    /\ doc = d
    /\ pc = "start"
    /\ err = NoErr
    /\ trace = <<>>
    /\ title = ""
    /\ packages = <<>>
    /\ labels = <<>>
    /\ milestones = <<>>
    /\ xticks = <<>>
    /\ nPackages = 0
    /\ startDate = <<>>
    /\ endDate = <<>>
    /\ durations = <<>>
    /\ start = <<>>
    /\ end = <<>>
    /\ yPos = <<>>
    /\ plt = [figs |-> 0, cur |-> BlankFig]
    /\ output = NoOutput

Init == \E d \in Docs : InitWith(d)

InitPackage == \E d \in PackageDocs : InitWith(d)

\* runs over documents of several packages
Spec == Init /\ [][Next]_vars

\* runs over one-package documents, every combination of the package's fields
SpecPackage == InitPackage /\ [][Next]_vars

(***************************************************************************)
(* Properties                                                              *)
(***************************************************************************)
\* The spec's error kinds, as the exceptions the code raises for them
IsFormatError(e) == e.exc = "ValueError" /\ e.msg = "Date format for {} should be MM-YYYY"
IsValidationError(e) == e.exc = "ValueError" /\ e.msg = "Cannot end before started"
IsDataError(e) == e.exc \in {"FileNotFoundError", "JSONDecodeError", "KeyError"}
IsTickFormatError(e) == e.exc = "ValueError" /\ e.msg = "time data {} does not match format"

\* _loadData has run on a readable document that has both required keys and a first package
FirstPackageTried ==
    /\ trace # <<>>
    /\ doc.file = "ok" /\ doc.hasTitle /\ doc.hasPackages
    /\ doc.packages # <<>>

\* a month on the calendar, counted in months
MonthIndex(d) == 12 * d.year + d.month

AllParse(ms) == \A i \in 1..Len(ms) : Strptime(ms[i]).ok

\* C1: a record whose parsed end is strictly before its parsed start always fails
\* with a ValidationError; every package constructed has start <= end; and a
\* record with start equal to end is accepted.
C1_StartNotAfterEnd ==
    /\ FirstPackageTried =>
          \A s \in {Strptime(doc.packages[1].start)} :
          \A e \in {Strptime(doc.packages[1].end)} :
              /\ (s.ok /\ e.ok /\ MonthIndex(e.value) < MonthIndex(s.value))
                     => (pc = "failed" /\ IsValidationError(err) /\ packages = <<>>)
              /\ (s.ok /\ e.ok /\ MonthIndex(e.value) = MonthIndex(s.value)
                       /\ AllParse(doc.packages[1].milestones))
                     => (packages # <<>> /\ packages[1].start = packages[1].end)
    /\ \A i \in 1..Len(packages) :
           MonthIndex(packages[i].start) <= MonthIndex(packages[i].end)

\* C1 witness: a record with end before start was refused with the ValidationError
C1_Witness ==
    /\ FirstPackageTried
    /\ doc.packages[1].start = D_03_2021 /\ doc.packages[1].end = D_01_2021
    /\ pc = "failed" /\ IsValidationError(err)

\* the days from the first of month a to the first of month b, counted month by
\* month on the Gregorian calendar
CalendarMonthDays(y, m) ==
    IF m = 2 THEN (IF (y % 4 = 0 /\ y % 100 # 0) \/ y % 400 = 0 THEN 29 ELSE 28)
    ELSE IF m \in {1, 3, 5, 7, 8, 10, 12} THEN 31 ELSE 30

RECURSIVE CalendarDays(_, _)
CalendarDays(a, b) ==
    IF MonthIndex(a) >= MonthIndex(b) THEN 0
    ELSE CalendarMonthDays(a.year, a.month)
         + CalendarDays(IF a.month = 12 THEN [a EXCEPT !.year = @ + 1, !.month = 1]
                        ELSE [a EXCEPT !.month = @ + 1], b)

\* C3: the duration _procData computes is the calendar-day difference between the
\* first day of the end month and the first day of the start month, equals end
\* ordinal minus start ordinal, and is never negative; 01-2021 to 03-2021 gives 59.
C3_DurationIsCalendarDays ==
    pc = "ready" =>
        /\ Len(durations) = Len(packages)
        /\ \A i \in 1..Len(packages) :
               /\ durations[i] = CalendarDays(packages[i].start, packages[i].end)
               /\ durations[i] = end[i] - start[i]
               /\ durations[i] >= 0
               /\ (doc.packages[i].start = D_01_2021 /\ doc.packages[i].end = D_03_2021)
                      => durations[i] = 59

\* C3 witness: a duration across the leap day of 2020 has been computed
C3_Witness ==
    /\ pc = "ready"
    /\ doc.packages # <<>>
    /\ doc.packages[1].start = D_02_2020 /\ doc.packages[1].end = D_01_2021
    /\ durations = <<335>>

\* the fixed pattern: two digits, a hyphen, four digits
StrictMMYYYY(s) ==
    /\ Len(s) = 7
    /\ s[3] = "-"
    /\ \A i \in {1, 2, 4, 5, 6, 7} : s[i] \in Digits

\* C6: a start string that does not match two digits, hyphen, four digits makes
\* Package construction fail with a FormatError that names the string.
C6_MalformedStartRejected ==
    (FirstPackageTried /\ ~StrictMMYYYY(doc.packages[1].start))
        => (pc = "failed" /\ IsFormatError(err) /\ err.arg = doc.packages[1].start)

\* C2: after construction the slot positions are N, N-1, ..., 1 in document order,
\* and render puts bar i and the label of document entry i at slot N - i + 1
\* (entries counted from 1).
C2_SlotsDescend ==
    \A n \in {Len(doc.packages)} :
        /\ pc = "ready" =>
               /\ Len(yPos) = n
               /\ \A i \in 1..n : yPos[i] = n - i + 1
        /\ \A i \in 1..Len(plt.cur.bars) : plt.cur.bars[i].y = n - i + 1
        /\ \A i \in 1..Len(plt.cur.yticks) :
               plt.cur.yticks[i] = <<n - i + 1, doc.packages[i].label>>

\* C2 witness: a document of two or more packages has been drawn
C2_Witness ==
    /\ pc = "ready"
    /\ Len(doc.packages) >= 2
    /\ Len(plt.cur.yticks) = Len(doc.packages)
    /\ plt.cur.yticks[1][1] = Len(doc.packages)

\* C4: a document without the key title or without the key packages always fails
\* to load with a DataError (a KeyError), whatever else it contains; a missing
\* file and a file that is not JSON fail with a DataError too.
C4_MissingKeyIsDataError ==
    trace # <<>> =>
        /\ (doc.file = "ok" /\ (~doc.hasTitle \/ ~doc.hasPackages))
               => (pc = "failed" /\ Len(trace) = 1 /\ err.exc = "KeyError"
                   /\ IsDataError(err))
        /\ doc.file # "ok" => (pc = "failed" /\ Len(trace) = 1 /\ IsDataError(err))

\* C4 witness: a document without title whose packages are malformed too has
\* failed with the KeyError
C4_Witness ==
    /\ trace # <<>>
    /\ doc.file = "ok" /\ ~doc.hasTitle /\ doc.hasPackages
    /\ doc.packages # <<>> /\ doc.packages[1].start = D_2020_01
    /\ err = Exc("KeyError", "title", <<>>)

\* C5: after loading, the milestones map has a key for a label if and only if a
\* package of that label declares at least one milestone.
C5_KeysOnlyForDeclaredMilestones ==
    pc \in {"loaded", "ready"} =>
        \A i \in 1..Len(packages) :
            packages[i].label \in DictKeys(milestones)
                <=> \E j \in 1..Len(packages) :
                        /\ packages[j].label = packages[i].label
                        /\ packages[j].milestones # <<>>

\* a render() call has returned
Rendered == \E k \in 1..Len(trace) : trace[k] = [op |-> "render", ok |-> TRUE]

\* C7: a bar has a legend entry if and only if its package's legend is non-null,
\* and the legend is shown if and only if some package's legend is non-null.
C7_LegendIffNonNull ==
    Rendered =>
        /\ \A i \in 1..Len(packages) :
               plt.cur.bars[i].label # PyNone <=> packages[i].legend # PyNone
        /\ plt.cur.legend <=> \E i \in 1..Len(packages) : packages[i].legend # PyNone

\* C7 as amended: a bar has a legend entry if and only if its package's legend is
\* neither null nor the empty string, the entry being that string; and the legend
\* is shown if and only if some package has such a legend.
C7_LegendIffNonEmpty ==
    Rendered =>
        /\ \A i \in 1..Len(doc.packages) :
               IF doc.packages[i].legend \in {Absent, PyNone, ""}
               THEN plt.cur.bars[i].label = PyNone
               ELSE plt.cur.bars[i].label = doc.packages[i].legend
        /\ plt.cur.legend <=>
               \E i \in 1..Len(doc.packages) :
                   doc.packages[i].legend \notin {Absent, PyNone, ""}

\* C7 witness: a chart drawn from a package with a legend string and a package
\* whose legend is the empty string
C7_Witness ==
    /\ Rendered
    /\ \E i, j \in 1..Len(doc.packages) :
           /\ doc.packages[i].legend = "Phase 1" /\ plt.cur.bars[i].label = "Phase 1"
           /\ doc.packages[j].legend = "" /\ plt.cur.bars[j].label = PyNone
    /\ plt.cur.legend

\* C8: every failure of a run (a bad date in a package, a milestone or an xticks
\* entry, start after end, a missing key, an unreadable file) is raised before
\* anything is drawn: no figure exists when the error is raised.
C8_NoChartOnFailure ==
    (IsFormatError(err) \/ IsValidationError(err) \/ IsDataError(err)
        \/ IsTickFormatError(err))
        => (plt.figs = 0 /\ plt.cur = BlankFig)

\* the phase the strict sequence allows at position i
StrictPhase(i) ==
    CASE i = 1 -> {"load"} [] i = 2 -> {"process"} [] i = 3 -> {"render"}
      [] i = 4 -> {"show", "save"} [] OTHER -> {}

\* C9: on one instance the phases run strictly in the order Load, Process, Render,
\* then Show or Save, each after the one before has completed, and none twice.
C9_StrictPhaseOrder ==
    \A i \in 1..Len(trace) :
        /\ trace[i].op \in StrictPhase(i)
        /\ i > 1 => trace[i - 1].ok

\* C9 as amended: Load and Process each run once, Load first and Process second
\* and only after Load completed; render, show and save run only after Process
\* completed, in any order and any number of times.
C9_ConstructionOrder ==
    \A i \in 1..Len(trace) :
        /\ trace[i].op = "load" <=> i = 1
        /\ trace[i].op = "process" <=> i = 2
        /\ i >= 2 => trace[1].ok
        /\ i >= 3 => trace[2].ok

\* C9 witness: show ran before the first render
C9_Witness ==
    /\ Len(trace) = 4
    /\ trace[3].op = "show" /\ trace[4].op = "render"
    /\ trace[2] = [op |-> "process", ok |-> TRUE]

HasDuplicates(l) == \E i, j \in 1..Len(l) : i # j /\ l[i] = l[j]

\* _procData has run on labels of which two are equal
ProcessedDuplicates == Len(trace) >= 2 /\ HasDuplicates(labels)

\* C10: with a label shared by two packages, loading and processing complete
\* without an error and the positional arrays are fully populated.
C10_DuplicatesProcessSilently ==
    ProcessedDuplicates =>
        /\ trace[2].ok
        /\ Len(durations) = Len(labels)
        /\ \A i \in 1..Len(labels) : startDate[i] # NoneDate /\ endDate[i] # NoneDate

\* C10 as amended: with a label shared by two packages, loading completes without
\* an error and every lookup of the label in _procData resolves to the first
\* package that carries it, which ends up with the dates of the last such package;
\* the slots of the later packages stay None, so _procData raises a TypeError and
\* durations and slot positions are never computed.
C10_DuplicatesFirstIndex ==
    ProcessedDuplicates =>
        /\ trace[1].ok
        /\ pc = "failed" /\ err.exc = "TypeError"
        /\ durations = <<>> /\ yPos = <<>>
        /\ \A i \in 1..Len(labels) :
               IF \E j \in 1..(i - 1) : labels[j] = labels[i]
               THEN startDate[i] = NoneDate /\ endDate[i] = NoneDate
               ELSE \E k \in i..Len(labels) :
                        /\ labels[k] = labels[i]
                        /\ \A j \in (k + 1)..Len(labels) : labels[j] # labels[i]
                        /\ startDate[i] = packages[k].start
                        /\ endDate[i] = packages[k].end

\* C10 witness: two packages of one label and different dates have been processed
C10_Witness ==
    /\ ProcessedDuplicates
    /\ Len(packages) = 2
    /\ packages[1].start # packages[2].start
    /\ startDate = <<packages[2].start, NoneDate>>

====
